---------------------------- MODULE Spec2Model ----------------------------
(***************************************************************************)
(* The two benchmark harnesses of the repository as one state machine:     *)
(*   "soc": 4-soc/scripts/run_benchmark.py  (filters, markdown table)      *)
(*   "top": scripts/run_benchmark.py        (predictor env, summary table) *)
(* The variable `script` says which of the two programs is running.  A     *)
(* step is one statement group of main(): the Makefile check, a filter,    *)
(* the start of an external command (subprocess.run called), the return of *)
(* run_command together with everything main() does with the value, and    *)
(* the printing of the final table.  Text is TLA+ strings; the regular     *)
(* expressions, int(), float() and the formats are computed on them.       *)
(***************************************************************************)
EXTENDS Naturals, Sequences, FiniteSets, TLC

(* ------------------------------ bounds -------------------------------- *)
\* The declared tables are cut to their first MaxConfigs / MaxBenchmarks
\* entries, and at most MaxFaults external commands of one execution end
\* otherwise than "exit status 0 with the complete report on stdout".
MaxConfigs == 2
MaxBenchmarks == 3
MaxFaults == 1

(* --------------------------- text helpers ----------------------------- *)
At(s, i) == SubSeq(s, i, i)

StartsAt(s, i, pat) ==
    /\ i >= 1
    /\ i + Len(pat) - 1 <= Len(s)
    /\ SubSeq(s, i, i + Len(pat) - 1) = pat

Min2(a, b) == IF a <= b THEN a ELSE b

Take(seq, n) == SubSeq(seq, 1, Min2(n, Len(seq)))

DigitChars == {"0", "1", "2", "3", "4", "5", "6", "7", "8", "9"}
\* the class [\d\.]
NumChars == DigitChars \cup {"."}
\* the class \s
SpaceChars == {" ", "\n", "\t"}

\* str.lower() on the characters the names and filters use
LowerChar(c) ==
    CASE c = "A" -> "a" [] c = "B" -> "b" [] c = "C" -> "c" [] c = "D" -> "d"
      [] c = "E" -> "e" [] c = "G" -> "g" [] c = "H" -> "h" [] c = "L" -> "l"
      [] c = "O" -> "o" [] c = "P" -> "p" [] c = "R" -> "r" [] c = "S" -> "s"
      [] c = "T" -> "t" [] c = "U" -> "u" [] c = "W" -> "w" [] c = "V" -> "v"
      [] OTHER -> c

RECURSIVE Lower(_)
Lower(s) == IF s = "" THEN "" ELSE LowerChar(At(s, 1)) \o Lower(SubSeq(s, 2, Len(s)))

\* Python's `a in b` on strings
Contains(b, a) == \E i \in 1..(Len(b) + 1) : a = "" \/ StartsAt(b, i, a)

\* the end (exclusive) of the longest run of characters of class C from i
RECURSIVE RunEnd(_, _, _)
RunEnd(s, i, C) ==
    IF i <= Len(s) /\ At(s, i) \in C THEN RunEnd(s, i + 1, C) ELSE i

\* " ".join(parts), " | ".join(parts)
RECURSIVE Join(_, _)
Join(sep, parts) ==
    IF Len(parts) = 0 THEN ""
    ELSE IF Len(parts) = 1 THEN parts[1]
    ELSE parts[1] \o sep \o Join(sep, Tail(parts))

\* int(s) for a string of decimal digits
DigitVal(c) ==
    CASE c = "0" -> 0 [] c = "1" -> 1 [] c = "2" -> 2 [] c = "3" -> 3
      [] c = "4" -> 4 [] c = "5" -> 5 [] c = "6" -> 6 [] c = "7" -> 7
      [] c = "8" -> 8 [] c = "9" -> 9

DigitStr(d) ==
    CASE d = 0 -> "0" [] d = 1 -> "1" [] d = 2 -> "2" [] d = 3 -> "3"
      [] d = 4 -> "4" [] d = 5 -> "5" [] d = 6 -> "6" [] d = 7 -> "7"
      [] d = 8 -> "8" [] d = 9 -> "9"

RECURSIVE ParseInt(_)
ParseInt(s) ==
    IF s = "" THEN 0
    ELSE 10 * ParseInt(SubSeq(s, 1, Len(s) - 1)) + DigitVal(At(s, Len(s)))

\* str(n) for n >= 0
RECURSIVE IntStr(_)
IntStr(n) == IF n < 10 THEN DigitStr(n) ELSE IntStr(n \div 10) \o DigitStr(n % 10)

\* the "," grouping of format(n, ",") on the digits of str(n)
RECURSIVE Group3(_)
Group3(d) ==
    IF Len(d) <= 3 THEN d
    ELSE Group3(SubSeq(d, 1, Len(d) - 3)) \o "," \o SubSeq(d, Len(d) - 2, Len(d))

Commas(n) == Group3(IntStr(n))

RECURSIVE Pow10(_)
Pow10(k) == IF k = 0 THEN 1 ELSE 10 * Pow10(k - 1)

RECURSIVE Spaces(_)
Spaces(n) == IF n = 0 THEN "" ELSE " " \o Spaces(n - 1)

\* f"{s:<w}"
PadRight(s, w) == IF Len(s) >= w THEN s ELSE s \o Spaces(w - Len(s))

RECURSIVE Zeros(_)
Zeros(n) == IF n = 0 THEN "" ELSE "0" \o Zeros(n - 1)


(* ------------------------- regular expressions ------------------------ *)
NoMatch == [found |-> FALSE, group |-> ""]

\* Whether  label sep (C+) suffix  matches at position i, where sep is the
\* literal " " or the class \s+ (spelt "\\s+"), and the text it captures.
\* C, \s and the suffix are disjoint, so the greedy runs never back off.
MatchAt(s, i, label, sep, C, suffix) ==
    IF ~StartsAt(s, i, label) THEN NoMatch
    ELSE LET j == i + Len(label)
             k == IF sep = "\\s+" THEN RunEnd(s, j, SpaceChars)
                  ELSE IF StartsAt(s, j, sep) THEN j + Len(sep) ELSE j
             e == RunEnd(s, k, C)
         IN  IF k > j /\ e > k /\ (suffix = "" \/ StartsAt(s, e, suffix))
             THEN [found |-> TRUE, group |-> SubSeq(s, k, e - 1)]
             ELSE NoMatch

\* re.search: the match at the leftmost position, from i on, that has one
SearchFrom(s, i, label, sep, C, suffix) ==
    LET hits == {j \in i..Len(s) : MatchAt(s, j, label, sep, C, suffix).found}
    IN  IF hits = {} THEN NoMatch
        ELSE MatchAt(s, CHOOSE j \in hits : \A k \in hits : j <= k, label, sep, C, suffix)

ReSearch(s, label, sep, C, suffix) == SearchFrom(s, 1, label, sep, C, suffix)

(* --------------------- 4-soc/scripts: parse_output -------------------- *)
parse_output(output) ==
    LET ipc_match == ReSearch(output, "IPC:", "\\s+", NumChars, "")
        mr_match == ReSearch(output, "Misprediction rate:", "\\s+", NumChars, "%")
        cycles_match == ReSearch(output, "Cycles:", "\\s+", DigitChars, "")
    IN  [ipc |-> IF ipc_match.found THEN ipc_match.group ELSE "N/A",
         mr |-> IF mr_match.found THEN mr_match.group \o "%" ELSE "N/A",
         cycles |-> IF cycles_match.found THEN cycles_match.group ELSE "N/A"]

(* ----------------------- scripts: parse_results ----------------------- *)
\* float(s) for s in [\d\.]+ : a value mant / 10^scale, or ValueError
RECURSIVE CountDots(_)
CountDots(s) ==
    IF s = "" THEN 0
    ELSE (IF At(s, 1) = "." THEN 1 ELSE 0) + CountDots(SubSeq(s, 2, Len(s)))

RECURSIVE DropDots(_)
DropDots(s) ==
    IF s = "" THEN ""
    ELSE (IF At(s, 1) = "." THEN "" ELSE At(s, 1)) \o DropDots(SubSeq(s, 2, Len(s)))

FloatOk(s) == CountDots(s) <= 1 /\ DropDots(s) # ""

ParseFloat(s) ==
    LET dot == RunEnd(s, 1, DigitChars)
    IN  [mant |-> ParseInt(DropDots(s)),
         scale |-> IF dot > Len(s) THEN 0 ELSE Len(s) - dot]

IntAsFloat(n) == [mant |-> n, scale |-> 0]

\* f"{x:.pf}" (no input of the model has more than p decimals, where the
\* rounding of the binary value would matter)
FormatFixed(x, p) ==
    LET scaled == IF x.scale <= p THEN x.mant * Pow10(p - x.scale)
                  ELSE (x.mant + Pow10(x.scale - p) \div 2) \div Pow10(x.scale - p)
        d == IntStr(scaled)
        padded == IF Len(d) > p THEN d ELSE Zeros(p + 1 - Len(d)) \o d
    IN  SubSeq(padded, 1, Len(padded) - p) \o "." \o
        SubSeq(padded, Len(padded) - p + 1, Len(padded))

EmptyDict == [k \in {} |-> 0]

\* d[k] = v
Put(d, k, v) == [x \in (DOMAIN d) \cup {k} |-> IF x = k THEN v ELSE d[x]]

\* dict.get(k, default)
Get(d, k, default) == IF k \in DOMAIN d THEN d[k] ELSE default

\* the stats dict, or raised = TRUE when float() raises ValueError
parse_results(output) ==
    LET m_inst == ReSearch(output, "Instructions:", " ", DigitChars, "")
        m_cyc == ReSearch(output, "Cycles:", " ", DigitChars, "")
        m_ipc == ReSearch(output, "IPC:", " ", NumChars, "")
        m_rate == ReSearch(output, "Misprediction rate:", " ", NumChars, "%")
        m_branches == ReSearch(output, "Total branches:", " ", DigitChars, "")
        s1 == IF m_inst.found THEN Put(EmptyDict, "inst", ParseInt(m_inst.group))
              ELSE EmptyDict
        s2 == IF m_cyc.found THEN Put(s1, "cycles", ParseInt(m_cyc.group)) ELSE s1
        s3 == IF m_ipc.found /\ FloatOk(m_ipc.group)
              THEN Put(s2, "ipc", ParseFloat(m_ipc.group)) ELSE s2
        s4 == IF m_rate.found /\ FloatOk(m_rate.group)
              THEN Put(s3, "rate", ParseFloat(m_rate.group)) ELSE s3
        s5 == IF m_branches.found THEN Put(s4, "branches", ParseInt(m_branches.group))
              ELSE s4
    IN  [raised |-> \/ (m_ipc.found /\ ~FloatOk(m_ipc.group))
                    \/ (m_rate.found /\ ~FloatOk(m_rate.group)),
         stats |-> s5]

(* --------------------------- declared tables -------------------------- *)
\* 4-soc/scripts: (Name, ConfigString)
all_configs ==
    << [name |-> "BTB", args |-> "MODEL=btb"],
       [name |-> "GShare", args |-> "MODEL=gshare"],
       [name |-> "TwoLevel", args |-> "MODEL=twolevel"],
       [name |-> "Per-T", args |-> "MODEL=per-t"],
       [name |-> "Per-B", args |-> "MODEL=per-b"] >>

\* 4-soc/scripts: (Name, Target, Params)
all_benchmarks ==
    << [name |-> "bubblesort(50)", target |-> "sim_bub", params |-> "SIZE=50"],
       [name |-> "bubblesort(100)", target |-> "sim_bub", params |-> "SIZE=100"],
       [name |-> "shellsort(50)", target |-> "sim_shellsort", params |-> "SIZE=50"],
       [name |-> "shellsort(100)", target |-> "sim_shellsort", params |-> "SIZE=100"],
       [name |-> "dijkstra", target |-> "sim_dijkstra", params |-> ""],
       [name |-> "chess", target |-> "sim_chess", params |-> ""],
       [name |-> "branchstress", target |-> "sim_branchstress", params |-> ""] >>

\* scripts: the predictor environments, in the dict's order
PredEnv(g, t, p) == << <<"GSHARE", g>>, <<"TWOLEVEL", t>>, <<"PERCEPTRON_B", p>> >>

RECURSIVE KeyValues(_)
KeyValues(env) ==
    IF env = <<>> THEN <<>>
    ELSE << env[1][1] \o "=" \o env[1][2] >> \o KeyValues(Tail(env))

\* make_vars = " ".join([f"{k}={v}" for k, v in pred_env.items()])
MakeVars(pred_env) == Join(" ", KeyValues(pred_env))

PREDICTORS ==
    << [name |-> "BTB", args |-> MakeVars(PredEnv("0", "0", "0"))],
       [name |-> "GSHARE", args |-> MakeVars(PredEnv("1", "0", "0"))],
       [name |-> "TWOLEVEL", args |-> MakeVars(PredEnv("0", "1", "0"))],
       [name |-> "PERCEPTRON_B", args |-> MakeVars(PredEnv("0", "0", "1"))] >>

BENCHMARKS ==
    << [name |-> "sim_bub(50)", target |-> "sim_bub", params |-> "SIZE=50"],
       [name |-> "sim_bub(100)", target |-> "sim_bub", params |-> "SIZE=100"],
       [name |-> "sim_shellsort(50)", target |-> "sim_shellsort", params |-> "SIZE=50"],
       [name |-> "sim_shellsort(100)", target |-> "sim_shellsort", params |-> "SIZE=100"],
       [name |-> "sim_dijkstra", target |-> "sim_dijkstra", params |-> ""],
       [name |-> "sim_chess", target |-> "sim_chess", params |-> ""] >>

\* the tables the model runs with: the first entries of the declared ones
DeclaredConfigs(scr) ==
    Take(IF scr = "soc" THEN all_configs ELSE PREDICTORS, MaxConfigs)

DeclaredBenchmarks(scr) ==
    Take(IF scr = "soc" THEN all_benchmarks ELSE BENCHMARKS, MaxBenchmarks)

\* [c for c in table if flt.lower() in c[0].lower()]
FilterByName(table, flt) ==
    SelectSeq(table, LAMBDA c : Contains(Lower(c.name), Lower(flt)))

(* ------------------------------ inputs -------------------------------- *)
\* command-line filters ("" is no filter: argparse's None is as falsy)
ConfigFilters == {"", "SHARE", "zz"}
BenchmarkFilters == {"", "Sort(50", "qq"}

\* what a simulator run may leave on stdout
OutFull ==
    "Instructions: 15241\nCycles: 12345\nIPC: 1.234\nTotal branches: 900\nMisprediction rate: 5.67%\n"
OutNoCycles == "IPC: 1.234\nMisprediction rate: 5.67%\n"
OutCyclesOnly == "Cycles: 1234567\n"
OutBadFloat == "Cycles: 12345\nIPC: 1.234.\nMisprediction rate: 5.67%\n"
\* the report between lines of other text, its markers in another order
OutNoise ==
    "warning: cold cache\nMisprediction rate: 5.67%\n[sim] done, IPC: 1.234 so far\nCycles: 12345 in total\n"
Outputs == {OutFull, OutNoCycles, OutCyclesOnly, OutBadFloat, OutNoise, ""}

\* parse_output and parse_results on every text a run may print, tabulated
ParsedOutput == [t \in Outputs |-> parse_output(t)]
ParsedResults == [t \in Outputs |-> parse_results(t)]

\* how subprocess.run ends: exit status 0, a non-zero exit status, an
\* exception of class Exception (OSError, ...), or KeyboardInterrupt
Exit0(text) == [kind |-> "exit0", stdout |-> text]
Failure(k) == [kind |-> k, stdout |-> ""]
FailureKinds == {"nonzero", "exception", "interrupt"}
BuildOutcomes == {Exit0("built\n")} \cup {Failure(k) : k \in FailureKinds}
RunOutcomes == {Exit0(t) : t \in Outputs} \cup {Failure(k) : k \in FailureKinds}
Nominal(step) == IF step = "run" THEN Exit0(OutFull) ELSE Exit0("built\n")

(* ----------------------------- run_command ---------------------------- *)
\* What run_command hands back for an outcome of subprocess.run: the text,
\* None, or an exception that leaves run_command (raised).
Returned(text) == [raised |-> FALSE, none |-> FALSE, text |-> text]
ReturnedNone == [raised |-> FALSE, none |-> TRUE, text |-> ""]
Raised == [raised |-> TRUE, none |-> FALSE, text |-> ""]

\* run_command_soc with a bare except: KeyboardInterrupt is caught as well
run_command_soc_BareExcept(o) ==
    CASE o.kind = "exit0" -> Returned(o.stdout)
      [] OTHER -> Returned("")

\* 4-soc/scripts: returncode != 0 and `except Exception` both give ""
run_command_soc(o) ==
    CASE o.kind = "exit0" -> Returned(o.stdout)
      [] o.kind = "nonzero" -> Returned("")
      [] o.kind = "exception" -> Returned("")
      [] OTHER -> Raised

\* scripts: check=True, and only CalledProcessError is caught
run_command_top(o) ==
    CASE o.kind = "exit0" -> Returned(o.stdout)
      [] o.kind = "nonzero" -> ReturnedNone
      [] OTHER -> Raised

run_command(scr, o) == IF scr = "soc" THEN run_command_soc(o) ELSE run_command_top(o)

\* Python's truth value of what run_command returned
Truthy(r) == ~r.none /\ r.text # ""

(* ------------------------------- state -------------------------------- *)
VARIABLES
    script,        \* "soc" or "top": which harness runs
    makefile,      \* whether the Makefile is where the script looks for it
    argConfig,     \* args.config
    argBenchmark,  \* args.benchmark
    configs,       \* the selected configurations, in order
    benchmarks,    \* the selected benchmarks, in order
    pc,            \* where main() is
    ci,            \* index of the configuration of the outer loop
    bi,            \* index of the benchmark of the inner loop
    inflight,      \* the external command subprocess.run is waiting for
    results,       \* results / results_table
    writes,        \* the keys assigned in the dict, in order (history)
    log,           \* start and end of every external command (history)
    faults,        \* external commands that did not end nominally (history)
    artifact,      \* whose generated hardware the build directory holds
    stdout,        \* the error messages printed
    report,        \* the table printed at the end
    exitCode       \* how the process ended

vars == << script, makefile, argConfig, argBenchmark, configs, benchmarks, pc, ci, bi,
           inflight, results, writes, log, faults, artifact, stdout, report, exitCode >>

NoCmd == [step |-> "none", config |-> "", bench |-> "", cmd |-> ""]
NoReport == [printed |-> FALSE, header |-> <<>>, rows |-> <<>>]

\* Key without the benchmark's name: the cells of one configuration share
\* one key of the dict.
Key_WithoutBenchmark(scr, config, bench) == <<config, config>>

\* the key of a cell: (bench_name, config_name) in 4-soc/scripts,
\* (pred_name, bench_name) in scripts
Key(scr, config, bench) == IF scr = "soc" THEN <<bench, config>> ELSE <<config, bench>>

Init ==
    /\ script \in {"soc", "top"}
    /\ makefile \in BOOLEAN
    /\ argConfig \in (IF script = "soc" THEN ConfigFilters ELSE {""})
    /\ argBenchmark \in (IF script = "soc" THEN BenchmarkFilters ELSE {""})
    /\ configs = IF script = "soc" THEN <<>> ELSE DeclaredConfigs("top")
    /\ benchmarks = IF script = "soc" THEN <<>> ELSE DeclaredBenchmarks("top")
    /\ pc = "start"
    /\ ci = 0
    /\ bi = 0
    /\ inflight = NoCmd
    /\ results = EmptyDict
    /\ writes = <<>>
    /\ log = <<>>
    /\ faults = 0
    /\ artifact = "none"
    /\ stdout = <<>>
    /\ report = NoReport
    /\ exitCode = "running"

(* ------------------------- start of main() ---------------------------- *)
\* first step of the outer loop body
LoopHead(scr) == IF scr = "soc" THEN "clean" ELSE "invalidate"

CheckMakefile ==
    /\ pc = "start"
    /\ IF makefile
       THEN /\ pc' = IF script = "soc" THEN "filter_configs" ELSE LoopHead(script)
            /\ ci' = IF script = "soc" THEN ci ELSE 1
            /\ UNCHANGED << stdout, exitCode >>
       ELSE /\ stdout' = Append(stdout,
                  IF script = "soc" THEN "Error: Makefile not found in base_dir"
                  ELSE "Error: Makefile not found in script directory")
            /\ exitCode' = "1"
            /\ pc' = "exited"
            /\ ci' = ci
    /\ UNCHANGED << script, makefile, argConfig, argBenchmark, configs, benchmarks, bi,
                    inflight, results, writes, log, faults, artifact, report >>

\* FilterConfigs without the check for an empty selection
FilterConfigs_SilentlyEmpty ==
    /\ pc = "filter_configs"
    /\ configs' = IF argConfig # "" THEN FilterByName(DeclaredConfigs(script), argConfig)
                  ELSE DeclaredConfigs(script)
    /\ pc' = "filter_benchmarks"
    /\ UNCHANGED << script, makefile, argConfig, argBenchmark, benchmarks, ci, bi, inflight,
                    results, writes, log, faults, artifact, stdout, report, exitCode >>

FilterConfigs ==
    /\ pc = "filter_configs"
    /\ LET selected == IF argConfig # "" THEN FilterByName(DeclaredConfigs(script), argConfig)
                       ELSE DeclaredConfigs(script)
       IN  IF selected = <<>>
           THEN /\ stdout' = Append(stdout, "Error: Config '" \o argConfig \o "' not found.")
                /\ exitCode' = "1"
                /\ pc' = "exited"
                /\ configs' = configs
           ELSE /\ configs' = selected
                /\ pc' = "filter_benchmarks"
                /\ UNCHANGED << stdout, exitCode >>
    /\ UNCHANGED << script, makefile, argConfig, argBenchmark, benchmarks, ci, bi,
                    inflight, results, writes, log, faults, artifact, report >>

FilterBenchmarks ==
    /\ pc = "filter_benchmarks"
    /\ LET selected == IF argBenchmark # ""
                       THEN FilterByName(DeclaredBenchmarks(script), argBenchmark)
                       ELSE DeclaredBenchmarks(script)
       IN  IF selected = <<>>
           THEN /\ stdout' = Append(stdout,
                      "Error: Benchmark '" \o argBenchmark \o "' not found.")
                /\ exitCode' = "1"
                /\ pc' = "exited"
                /\ UNCHANGED << benchmarks, ci >>
           ELSE /\ benchmarks' = selected
                /\ pc' = LoopHead(script)
                /\ ci' = 1
                /\ UNCHANGED << stdout, exitCode >>
    /\ UNCHANGED << script, makefile, argConfig, argBenchmark, configs, bi,
                    inflight, results, writes, log, faults, artifact, report >>

(* ---------------------------- the run loop ---------------------------- *)
\* CommandLine with the run command built from the benchmark alone: the
\* overrides of the configuration are passed to the build only.
CommandLine_RunWithoutOverrides(scr, step, config, bench) ==
    IF scr = "soc"
    THEN CASE step = "clean" -> "make clean"
           [] step = "build" -> "make " \o config.args \o " verilator"
           [] OTHER -> "make " \o bench.params \o " " \o bench.target
    ELSE CASE step = "build" -> "make verilator " \o config.args
           [] OTHER -> "make " \o bench.target \o " " \o bench.params

\* the command line of a step for a configuration and a benchmark
CommandLine(scr, step, config, bench) ==
    IF scr = "soc"
    THEN CASE step = "clean" -> "make clean"
           [] step = "build" -> "make " \o config.args \o " verilator"
           [] OTHER -> "make " \o config.args \o " " \o bench.params \o " " \o bench.target
    ELSE CASE step = "build" -> "make verilator " \o config.args
           [] OTHER -> "make " \o bench.target \o " " \o bench.params \o " " \o config.args

\* Successor with the build inside the inner loop: every benchmark after the
\* first is preceded by another build of its configuration.
Successor_RebuildPerBenchmark(scr, step, skipped, nconfigs, nbenchmarks, c, b) ==
    LET NextConfig == IF c < nconfigs THEN [pc |-> LoopHead(scr), ci |-> c + 1, bi |-> 0]
                      ELSE [pc |-> "report", ci |-> c, bi |-> 0]
    IN  CASE step = "clean" -> [pc |-> "build", ci |-> c, bi |-> b]
          [] step = "build" -> IF skipped THEN NextConfig
                               ELSE [pc |-> "run", ci |-> c, bi |-> b + 1]
          [] OTHER -> IF b < nbenchmarks THEN [pc |-> "build", ci |-> c, bi |-> b]
                      ELSE NextConfig

\* Successor with the builds hoisted out of the loop: every configuration is
\* built first, and the benchmarks of all configurations run afterwards.
Successor_BuildsFirst(scr, step, skipped, nconfigs, nbenchmarks, c, b) ==
    CASE step = "clean" -> [pc |-> "build", ci |-> c, bi |-> b]
      [] step = "build" -> IF c < nconfigs THEN [pc |-> LoopHead(scr), ci |-> c + 1, bi |-> 0]
                           ELSE [pc |-> "run", ci |-> 1, bi |-> 1]
      [] OTHER -> IF b < nbenchmarks THEN [pc |-> "run", ci |-> c, bi |-> b + 1]
                  ELSE IF c < nconfigs THEN [pc |-> "run", ci |-> c + 1, bi |-> 1]
                  ELSE [pc |-> "report", ci |-> c, bi |-> 0]

\* Where main() goes when a step of the loop body is over: after the clean
\* the build; after the build the first benchmark, or the next configuration
\* when the build is skipped; after a benchmark the next one, then the next
\* configuration, then the table.
Successor(scr, step, skipped, nconfigs, nbenchmarks, c, b) ==
    LET NextConfig == IF c < nconfigs THEN [pc |-> LoopHead(scr), ci |-> c + 1, bi |-> 0]
                      ELSE [pc |-> "report", ci |-> c, bi |-> 0]
    IN  CASE step = "clean" -> [pc |-> "build", ci |-> c, bi |-> b]
          [] step = "build" -> IF skipped THEN NextConfig
                               ELSE [pc |-> "run", ci |-> c, bi |-> 1]
          [] OTHER -> IF b < nbenchmarks THEN [pc |-> "run", ci |-> c, bi |-> b + 1]
                      ELSE NextConfig

Goto(next) ==
    /\ pc' = next.pc
    /\ ci' = next.ci
    /\ bi' = next.bi

\* an exception leaves main(): the traceback, and the process is over
Abort(o) ==
    /\ pc' = "aborted"
    /\ exitCode' = IF o.kind = "interrupt" THEN "sigint" ELSE "1"
    /\ UNCHANGED << ci, bi >>

\* scripts: os.remove of the generated verilog, when it is there
Invalidate ==
    /\ pc = "invalidate"
    /\ artifact' = "none"
    /\ pc' = "build"
    /\ UNCHANGED << script, makefile, argConfig, argBenchmark, configs, benchmarks, ci, bi,
                    inflight, results, writes, log, faults, stdout, report, exitCode >>

\* run_command is entered and subprocess.run starts the command
Launch ==
    /\ pc \in {"clean", "build", "run"}
    /\ inflight = NoCmd
    /\ LET bench == IF pc = "run" THEN benchmarks[bi]
                    ELSE [name |-> "", target |-> "", params |-> ""]
           cmd == [step |-> pc, config |-> configs[ci].name, bench |-> bench.name,
                   cmd |-> CommandLine(script, pc, configs[ci], bench)]
       IN  /\ inflight' = cmd
           /\ log' = Append(log, [ev |-> "start", step |-> cmd.step, config |-> cmd.config,
                                  bench |-> cmd.bench, cmd |-> cmd.cmd, kind |-> "", out |-> "",
                                  said |-> ""])
    /\ UNCHANGED << script, makefile, argConfig, argBenchmark, configs, benchmarks, pc, ci,
                    bi, results, writes, faults, artifact, stdout, report, exitCode >>

\* subprocess.run is over with outcome o: the part every step shares.  The
\* end of the command is logged with what main() then says of the step.
Finish(step, o, said) ==
    /\ pc = step
    /\ inflight.step = step
    /\ faults + (IF o = Nominal(step) THEN 0 ELSE 1) <= MaxFaults
    /\ faults' = faults + (IF o = Nominal(step) THEN 0 ELSE 1)
    /\ inflight' = NoCmd
    /\ log' = Append(log, [ev |-> "end", step |-> step, config |-> inflight.config,
                           bench |-> inflight.bench, cmd |-> inflight.cmd, kind |-> o.kind,
                           out |-> o.stdout, said |-> said])

\* 4-soc/scripts: run_command("make clean") returns; the value is dropped
CleanReturn(o) ==
    /\ Finish("clean", o, "")
    /\ artifact' = IF o.kind = "exit0" THEN "none" ELSE artifact
    /\ IF run_command(script, o).raised
       THEN Abort(o)
       ELSE /\ Goto(Successor(script, "clean", FALSE, Len(configs), Len(benchmarks), ci, bi))
            /\ exitCode' = exitCode
    /\ UNCHANGED << script, makefile, argConfig, argBenchmark, configs, benchmarks,
                    results, writes, stdout, report >>

\* what main() does with the value of the build's run_command:
\* 4-soc/scripts drops it, scripts skips the configuration on None
BuildSkips(scr, r) == scr = "top" /\ r.none

\* scripts: the line printed when the build is given up (line 99)
BuildMessage(scr, r) ==
    IF BuildSkips(scr, r) THEN "Failed to build hardware. Skipping..." ELSE ""

BuildReturn(o) ==
    /\ Finish("build", o, BuildMessage(script, run_command(script, o)))
    /\ artifact' = IF o.kind = "exit0" THEN configs[ci].name ELSE artifact
    /\ LET r == run_command(script, o)
       IN  IF r.raised
           THEN Abort(o)
           ELSE /\ Goto(Successor(script, "build", BuildSkips(script, r),
                                  Len(configs), Len(benchmarks), ci, bi))
                /\ exitCode' = exitCode
    /\ UNCHANGED << script, makefile, argConfig, argBenchmark, configs, benchmarks,
                    results, writes, stdout, report >>

ErrCell == <<"ERR", "ERR", "ERR">>

\* 4-soc/scripts: the value stored for a cell whose run_command returned r
SocCellValue(r) ==
    IF ~Truthy(r) THEN ErrCell
    ELSE LET p == ParsedOutput[r.text]
         IN  IF p.cycles = "N/A" THEN ErrCell ELSE <<p.ipc, p.mr, p.cycles>>

\* scripts: whether a value is stored for the cell
TopStores(r) == Truthy(r)

\* what main() prints about a cell once run_command has returned r:
\* 4-soc/scripts lines 126, 133, 136; scripts lines 119, 121.  Nothing is
\* printed when an exception leaves run_command or parse_results.
SocRunMessage(r) ==
    IF r.raised THEN ""
    ELSE IF ~Truthy(r) THEN " FAILED (Command error)"
    ELSE IF ParsedOutput[r.text].cycles = "N/A" THEN " FAILED (Parse error)"
    ELSE " Done"

TopRunMessage(r) ==
    IF r.raised THEN ""
    ELSE IF ~Truthy(r) THEN "    Failed to run"
    ELSE IF ParsedResults[r.text].raised THEN ""
    ELSE "    IPC: , Rate: %"

RunMessage(scr, r) == IF scr = "soc" THEN SocRunMessage(r) ELSE TopRunMessage(r)

RunReturn(o) ==
    /\ Finish("run", o, RunMessage(script, run_command(script, o)))
    /\ LET r == run_command(script, o)
           key == Key(script, configs[ci].name, benchmarks[bi].name)
           next == Successor(script, "run", FALSE, Len(configs), Len(benchmarks), ci, bi)
       IN  IF r.raised
           THEN /\ Abort(o)
                /\ UNCHANGED << results, writes >>
           ELSE IF script = "soc"
           THEN /\ results' = Put(results, key, SocCellValue(r))
                /\ writes' = Append(writes, key)
                /\ Goto(next)
                /\ exitCode' = exitCode
           ELSE IF TopStores(r)
           THEN IF ParsedResults[r.text].raised
                THEN /\ Abort(o)
                     /\ UNCHANGED << results, writes >>
                ELSE /\ results' = Put(results, key, ParsedResults[r.text].stats)
                     /\ writes' = Append(writes, key)
                     /\ Goto(next)
                     /\ exitCode' = exitCode
           ELSE /\ Goto(next)
                /\ UNCHANGED << results, writes, exitCode >>
    /\ UNCHANGED << script, makefile, argConfig, argBenchmark, configs, benchmarks,
                    artifact, stdout, report >>

(* ------------------------------ the table ----------------------------- *)
\* 4-soc/scripts: headers = ["Benchmark", "Cyc <cfg>", "MR <cfg>", ...]
RECURSIVE ConfigHeaders(_)
ConfigHeaders(cfgs) ==
    IF cfgs = <<>> THEN <<>>
    ELSE << "Cyc " \o cfgs[1].name, "MR " \o cfgs[1].name >> \o ConfigHeaders(Tail(cfgs))

\* 4-soc/scripts: the two cells of one (benchmark, configuration)
SocCells(res, bench_name, config_name) ==
    LET v == Get(res, <<bench_name, config_name>>, <<"-", "-", "-">>)
        mr == v[2]
        cycles == v[3]
    IN  IF cycles # "ERR" /\ cycles # "N/A" /\ cycles # "-"
        THEN << Commas(ParseInt(cycles)), mr >>
        ELSE << "ERR", "ERR" >>

RECURSIVE SocRowCells(_, _, _)
SocRowCells(res, bench_name, cfgs) ==
    IF cfgs = <<>> THEN <<>>
    ELSE SocCells(res, bench_name, cfgs[1].name) \o SocRowCells(res, bench_name, Tail(cfgs))

\* one row per benchmark: its name (printed between backquotes, which a
\* string of this module cannot hold) and the cells of every configuration
RECURSIVE SocRows(_, _, _)
SocRows(res, cfgs, benches) ==
    IF benches = <<>> THEN <<>>
    ELSE << << benches[1].name >> \o SocRowCells(res, benches[1].name, cfgs) >>
         \o SocRows(res, cfgs, Tail(benches))

SocTable(res, cfgs, benches) ==
    [printed |-> TRUE,
     header |-> << "Benchmark" >> \o ConfigHeaders(cfgs),
     rows |-> SocRows(res, cfgs, benches)]

\* scripts: the keys of results_table in the dict's order (first assignment)
RECURSIVE DictKeys(_)
DictKeys(w) ==
    IF w = <<>> THEN <<>>
    ELSE LET rest == DictKeys(SubSeq(w, 1, Len(w) - 1))
             k == w[Len(w)]
         IN  IF \E i \in 1..Len(rest) : rest[i] = k THEN rest ELSE Append(rest, k)

\* list.index of the entry with a name
IndexOf(table, name) == CHOOSE i \in 1..Len(table) :
    /\ table[i].name = name
    /\ \A j \in 1..(i - 1) : table[j].name # name

\* the sort key (index of the predictor, index of the benchmark), compared
KeyLess(a, b) ==
    LET pa == IndexOf(PREDICTORS, a[1])
        pb == IndexOf(PREDICTORS, b[1])
    IN  \/ pa < pb
        \/ pa = pb /\ IndexOf(BENCHMARKS, a[2]) < IndexOf(BENCHMARKS, b[2])

\* sorted(keys, key=...): stable insertion of each key after those not greater
RECURSIVE InsertKey(_, _)
InsertKey(sorted, k) ==
    IF sorted = <<>> THEN << k >>
    ELSE IF KeyLess(k, sorted[1]) THEN << k >> \o sorted
    ELSE << sorted[1] >> \o InsertKey(Tail(sorted), k)

RECURSIVE SortedKeys(_)
SortedKeys(keys) ==
    IF keys = <<>> THEN <<>>
    ELSE InsertKey(SortedKeys(SubSeq(keys, 1, Len(keys) - 1)), keys[Len(keys)])

\* scripts: one printed line of the summary, as its five padded cells
TopRow(key, stats) ==
    << PadRight(key[1], 15), PadRight(key[2], 20),
       PadRight(FormatFixed(Get(stats, "ipc", IntAsFloat(0)), 3), 8),
       PadRight(FormatFixed(Get(stats, "rate", IntAsFloat(0)), 2), 10),
       PadRight(IntStr(Get(stats, "cycles", 0)), 10) >>

RECURSIVE TopRows(_, _)
TopRows(res, keys) ==
    IF keys = <<>> THEN <<>>
    ELSE << TopRow(keys[1], res[keys[1]]) >> \o TopRows(res, Tail(keys))

TopTable(res, w) ==
    [printed |-> TRUE,
     header |-> << PadRight("Predictor", 15), PadRight("Benchmark", 20), PadRight("IPC", 8),
                   PadRight("Mispred %", 10), PadRight("Cycles", 10) >>,
     rows |-> TopRows(res, SortedKeys(DictKeys(w)))]

\* Render reading the store with pop() where main() reads it with get() and
\* []: the table is the same, and the store is empty afterwards.
Render_PopsResults ==
    /\ pc = "report"
    /\ report' = IF script = "soc" THEN SocTable(results, configs, benchmarks)
                 ELSE TopTable(results, writes)
    /\ results' = EmptyDict
    /\ writes' = <<>>
    /\ pc' = "done"
    /\ exitCode' = "0"
    /\ UNCHANGED << script, makefile, argConfig, argBenchmark, configs, benchmarks, ci, bi,
                    inflight, log, faults, artifact, stdout >>

\* the table is printed and main() returns
Render ==
    /\ pc = "report"
    /\ report' = IF script = "soc" THEN SocTable(results, configs, benchmarks)
                 ELSE TopTable(results, writes)
    /\ pc' = "done"
    /\ exitCode' = "0"
    /\ UNCHANGED << script, makefile, argConfig, argBenchmark, configs, benchmarks, ci, bi,
                    inflight, results, writes, log, faults, artifact, stdout >>

(* --------------------------- specification ---------------------------- *)
Next ==
    \/ CheckMakefile
    \/ FilterConfigs
    \/ FilterBenchmarks
    \/ Invalidate
    \/ Launch
    \/ \E o \in BuildOutcomes : CleanReturn(o)
    \/ \E o \in BuildOutcomes : BuildReturn(o)
    \/ \E o \in RunOutcomes : RunReturn(o)
    \/ Render

Spec == Init /\ [][Next]_vars

(* ----------------------- vocabulary of the claims --------------------- *)
Events == 1..Len(log)
IsStart(i, step) == log[i].ev = "start" /\ log[i].step = step
IsEnd(i, step) == log[i].ev = "end" /\ log[i].step = step

ConfigIdx == 1..Len(configs)
BenchIdx == 1..Len(benchmarks)
CellKey(c, b) == Key(script, configs[c].name, benchmarks[b].name)

\* the build of configuration c ended with a non-zero exit status
BuildFailed(c) ==
    \E i \in Events : IsEnd(i, "build") /\ log[i].config = configs[c].name
                      /\ log[i].kind = "nonzero"

\* a run of cell (c, b) was started
RunAttempted(c, b) ==
    \E i \in Events : IsStart(i, "run") /\ log[i].config = configs[c].name
                      /\ log[i].bench = benchmarks[b].name

\* the three counters the report needs are all found in a text
AllThreeExtracted(text) ==
    IF script = "soc"
    THEN LET p == ParsedOutput[text]
         IN  p.cycles # "N/A" /\ p.ipc # "N/A" /\ p.mr # "N/A"
    ELSE LET r == ParsedResults[text]
         IN  ~r.raised /\ {"cycles", "ipc", "rate"} \subseteq DOMAIN r.stats

\* the store holds a result for the cell, and one that is not an error entry
Recorded(c, b) == CellKey(c, b) \in DOMAIN results
RecordedSuccess(c, b) ==
    /\ Recorded(c, b)
    /\ script = "soc" => results[CellKey(c, b)] # ErrCell
RecordedError(c, b) ==
    /\ Recorded(c, b)
    /\ script = "soc"
    /\ results[CellKey(c, b)] = ErrCell

\* the report shows the two cells (cycles, misprediction rate) of (c, b)
ShownCells(c, b) ==
    IF script = "soc"
    THEN IF b <= Len(report.rows) /\ 2 * c + 1 <= Len(report.rows[b])
         THEN { << report.rows[b][2 * c], report.rows[b][2 * c + 1] >> }
         ELSE {}
    ELSE { << report.rows[i][5], report.rows[i][4] >> : i \in
             { j \in 1..Len(report.rows) :
                 /\ report.rows[j][1] = PadRight(configs[c].name, 15)
                 /\ report.rows[j][2] = PadRight(benchmarks[b].name, 20) } }

ErrShown == IF script = "soc" THEN { << "ERR", "ERR" >> }
            ELSE { << PadRight("ERR", 10), PadRight("ERR", 10) >> }

RenderedErr(c, b) == ShownCells(c, b) # {} /\ ShownCells(c, b) \subseteq ErrShown

(* ------------------------------- claims ------------------------------- *)
\* C1: when the build of a Configuration exits non-zero, no run is started
\* for any Benchmark under that Configuration afterwards in that pass.
C1_NoRunAfterFailedBuild ==
    \A i \in Events : \A j \in Events :
        ( /\ IsEnd(i, "build")
          /\ log[i].kind = "nonzero"
          /\ i < j
          /\ log[j].config = log[i].config )
        => ~IsStart(j, "run")

\* the run of cell (c, b) ended with exit status 0 and the complete report
RunNominal(c, b) ==
    \E i \in Events : /\ IsEnd(i, "run")
                      /\ log[i].config = configs[c].name
                      /\ log[i].bench = benchmarks[b].name
                      /\ log[i].kind = "exit0"
                      /\ log[i].out = OutFull

\* C2: in a matrix of 2 Configurations and 3 Benchmarks where exactly one
\* build fails, after the traversal the 3 cells of the failed Configuration
\* are recorded as failures and shown as ERR, and each cell of the other
\* Configuration is resolved from its own run (a complete run is a result).
C2_FailedBuildCellsAreErr ==
    ( /\ pc = "done"
      /\ Len(configs) = 2
      /\ Len(benchmarks) = 3
      /\ Cardinality({c \in ConfigIdx : BuildFailed(c)}) = 1 )
    => \A c \in ConfigIdx : \A b \in BenchIdx :
          IF BuildFailed(c)
          THEN RecordedError(c, b) /\ RenderedErr(c, b)
          ELSE /\ RunAttempted(c, b)
               /\ RunNominal(c, b) => (RecordedSuccess(c, b) /\ ~RenderedErr(c, b))

\* C3: for every cell whose run was attempted, the recorded status is
\* Success if and only if the run exited 0 and cycles, ipc and the
\* misprediction rate were all extracted from its output.
C3_SuccessIffAllThree ==
    \A i \in Events : \A c \in ConfigIdx : \A b \in BenchIdx :
        ( /\ IsEnd(i, "run")
          /\ log[i].config = configs[c].name
          /\ log[i].bench = benchmarks[b].name )
        => ( RecordedSuccess(c, b)
               <=> (log[i].kind = "exit0" /\ AllThreeExtracted(log[i].out)) )

\* a cell is a Success of the specification: its Configuration was built,
\* its run exited 0 and the three required counters were extracted
BuildSucceeded(c) ==
    \E i \in Events : IsEnd(i, "build") /\ log[i].config = configs[c].name
                      /\ log[i].kind = "exit0"

CellSuccess(c, b) ==
    /\ BuildSucceeded(c)
    /\ \E i \in Events : /\ IsEnd(i, "run")
                         /\ log[i].config = configs[c].name
                         /\ log[i].bench = benchmarks[b].name
                         /\ log[i].kind = "exit0"
                         /\ AllThreeExtracted(log[i].out)

\* C4: in the report, both cells of every cell that is not a Success are
\* the literal ERR.
C4_NonSuccessRendersErr ==
    pc = "done" => \A c \in ConfigIdx : \A b \in BenchIdx :
                       ~CellSuccess(c, b) => RenderedErr(c, b)

\* C5: after a completed traversal the store holds a result for exactly the
\* (Benchmark, Configuration) pairs of the selected matrix.
C5_OneResultPerCell ==
    pc \in {"report", "done"} =>
        DOMAIN results = {CellKey(c, b) : c \in ConfigIdx, b \in BenchIdx}

\* C6: the report shows the pair of cells of every selected Benchmark under
\* every selected Configuration, whatever failed.
C6_FullShape ==
    pc = "done" =>
        /\ report.printed
        /\ \A c \in ConfigIdx : \A b \in BenchIdx : Cardinality(ShownCells(c, b)) = 1

\* the position of a configuration name in the selected configurations
ConfigPos(name) == CHOOSE c \in ConfigIdx : configs[c].name = name

\* C7: in one pass the build of each selected Configuration is started at
\* most once, and it has ended before the first run under that
\* Configuration is started.
C7_BuildOnceBeforeRuns ==
    LET buildStarts == {i \in Events : IsStart(i, "build")}
        buildEnds == {i \in Events : IsEnd(i, "build")}
        runStarts == {j \in Events : IsStart(j, "run")}
    IN  /\ \A i \in buildStarts : \A j \in buildStarts :
              log[i].config = log[j].config => i = j
        /\ \A j \in runStarts :
              \E i \in buildEnds : i < j /\ log[i].config = log[j].config

\* both Configurations of the matrix were built and had every Benchmark run
C7_Witness ==
    /\ pc = "done"
    /\ Len(configs) >= 2
    /\ Len(benchmarks) >= 2
    /\ \A c \in ConfigIdx : \A b \in BenchIdx : RunAttempted(c, b)

\* C8: external commands never overlap (each one that starts has ended
\* before the next starts); when main() is at the invalidation, clean or
\* build of a Configuration every run so far is one of an earlier
\* Configuration and is over; and once the clean or build of a Configuration
\* has started no run of an earlier Configuration is started or ended.
C8_Sequential ==
    LET prepStarts == {i \in Events : IsStart(i, "clean") \/ IsStart(i, "build")}
        runEvents == {j \in Events : log[j].step = "run"}
    IN  /\ \A i \in Events :
              IF i % 2 = 1 THEN log[i].ev = "start"
              ELSE /\ log[i].ev = "end"
                   /\ log[i].step = log[i - 1].step
                   /\ log[i].cmd = log[i - 1].cmd
        /\ (inflight # NoCmd) <=> (Len(log) % 2 = 1)
        /\ pc \in {"invalidate", "clean", "build"}
           => /\ \A j \in runEvents : ConfigPos(log[j].config) < ci
              /\ inflight # NoCmd => inflight.step = pc
        /\ \A i \in prepStarts : \A j \in runEvents :
              i < j => ConfigPos(log[j].config) >= ConfigPos(log[i].config)

\* the second Configuration's build started after runs of the first
C8_Witness ==
    \E i \in Events : \E j \in Events :
        /\ i < j
        /\ IsEnd(i, "run")
        /\ IsStart(j, "build")
        /\ ConfigPos(log[i].config) < ConfigPos(log[j].config)
        /\ pc = "done"

\* the filters of the inputs that no declared name contains, whatever the case
UnmatchedConfigFilters ==
    {f \in ConfigFilters \ {""} :
        \A i \in 1..Len(DeclaredConfigs("soc")) :
            ~Contains(Lower(DeclaredConfigs("soc")[i].name), Lower(f))}

UnmatchedBenchmarkFilters ==
    {f \in BenchmarkFilters \ {""} :
        \A i \in 1..Len(DeclaredBenchmarks("soc")) :
            ~Contains(Lower(DeclaredBenchmarks("soc")[i].name), Lower(f))}

NoConfigMatch == argConfig \in UnmatchedConfigFilters
NoBenchmarkMatch == argBenchmark \in UnmatchedBenchmarkFilters

\* C9: when the configuration filter or the benchmark filter matches no
\* declared entry, no clean, build or run is ever started and no result is
\* recorded; main() never gets past the filter that matches nothing, and
\* where it stops the exit status is non-zero and (the Makefile being
\* there, so that the filters are reached) the error names that filter.
C9_NoMatchStopsBeforeWork ==
    (script = "soc" /\ (NoConfigMatch \/ NoBenchmarkMatch))
    => /\ log = <<>>
       /\ inflight = NoCmd
       /\ results = EmptyDict
       /\ writes = <<>>
       /\ ~report.printed
       /\ pc \in {"start", "filter_configs", "filter_benchmarks", "exited"}
       /\ NoConfigMatch => pc # "filter_benchmarks"
       /\ pc = "exited"
          => /\ exitCode = "1"
             /\ makefile
                => /\ Len(stdout) = 1
                   /\ StartsAt(stdout[1], 1, "Error: ")
                   /\ Contains(stdout[1],
                               "'" \o (IF NoConfigMatch THEN argConfig ELSE argBenchmark) \o "'")

\* the harness stopped on a configuration filter that matches nothing
C9_Witness ==
    /\ script = "soc"
    /\ makefile
    /\ NoConfigMatch
    /\ pc = "exited"

\* C10: a run failure (the run did not start, or exited non-zero) or a
\* parse failure of a cell never aborts the traversal.
C10_FailuresNeverAbort ==
    pc = "aborted"
    => ~( /\ IsEnd(Len(log), "run")
          /\ log[Len(log)].kind \in {"nonzero", "exception", "exit0"} )

(* ---------------------- run failure, parse failure -------------------- *)
\* what main() says of a cell it takes for a failed run invocation, and of
\* one it takes for an output without the markers it needs
RunFailureSaid == {" FAILED (Command error)", "    Failed to run"}
ParseFailureSaid == {" FAILED (Parse error)"}

RunEnds == {i \in Events : IsEnd(i, "run")}

\* C11: a cell is taken for a run failure exactly when its run invocation
\* did not start or exited non-zero, and a run that exited 0 with an output
\* that lacks a required marker (the empty output included) is taken for a
\* parse failure, not for a run failure.
C11_RunFailureVsParseFailure ==
    \A i \in RunEnds :
        /\ log[i].said \in RunFailureSaid <=> log[i].kind \in {"nonzero", "exception"}
        /\ (log[i].kind = "exit0" /\ ~AllThreeExtracted(log[i].out))
           => log[i].said \in ParseFailureSaid

\* the texts of a run in which the label of the cycle count does not occur
OutputsWithoutCycles == {t \in Outputs : ~Contains(t, "Cycles:")}

\* the run of cell (c, b) exited 0 and its captured output is one of texts
RunPrinted(c, b, texts) ==
    \E i \in RunEnds : /\ log[i].config = configs[c].name
                       /\ log[i].bench = benchmarks[b].name
                       /\ log[i].kind = "exit0"
                       /\ log[i].out \in texts

\* C12: a cell whose captured run output has no Cycles marker is not a
\* result, whatever other markers the output has: the store holds no
\* success for it and the report shows ERR in both of its cells.
C12_NoCyclesIsParseFailure ==
    pc = "done" => \A c \in ConfigIdx : \A b \in BenchIdx :
                       RunPrinted(c, b, OutputsWithoutCycles)
                       => (~RecordedSuccess(c, b) /\ RenderedErr(c, b))

(* ------------------------------ the parser ---------------------------- *)
\* the texts of a run that hold the three markers of the example report
MarkerTexts ==
    {t \in Outputs : /\ Contains(t, "Cycles: 12345")
                     /\ Contains(t, "IPC: 1.234")
                     /\ Contains(t, "Misprediction rate: 5.67%")}

\* the counters of the example report as each script keeps them
SocExpected == <<"1.234", "5.67%", "12345">>
TopExpected(stats) ==
    /\ {"cycles", "ipc", "rate"} \subseteq DOMAIN stats
    /\ stats["cycles"] = 12345
    /\ stats["ipc"] = [mant |-> 1234, scale |-> 3]
    /\ stats["rate"] = [mant |-> 567, scale |-> 2]

\* C13: whenever the captured output of a run holds `Cycles: 12345`,
\* `IPC: 1.234` and `Misprediction rate: 5.67%`, in any order and between
\* any other text, the parser returns cycles 12345, ipc 1.234 and rate 5.67
\* and the cell is recorded as a success with these values.
C13_MarkersParsedAmongNoise ==
    \A i \in RunEnds :
        (log[i].kind = "exit0" /\ log[i].out \in MarkerTexts)
        => LET key == Key(script, log[i].config, log[i].bench)
           IN  /\ key \in DOMAIN results
               /\ IF script = "soc"
                  THEN /\ ParsedOutput[log[i].out] =
                             [ipc |-> "1.234", mr |-> "5.67%", cycles |-> "12345"]
                       /\ results[key] = SocExpected
                  ELSE /\ ~ParsedResults[log[i].out].raised
                       /\ TopExpected(ParsedResults[log[i].out].stats)
                       /\ TopExpected(results[key])

(* ------------------------- order of the report ------------------------ *)
\* the number of cells the printed report lists, and the n-th of them, read
\* line by line and from left to right, as <<benchmark, configuration>>
\* positions in the selected tables
ListedCount ==
    IF script = "soc" THEN Len(report.rows) * Len(configs) ELSE Len(report.rows)

ListedCell(n) ==
    IF script = "soc"
    THEN LET r == ((n - 1) \div Len(configs)) + 1
             k == ((n - 1) % Len(configs)) + 1
         IN  << CHOOSE b \in BenchIdx : benchmarks[b].name = report.rows[r][1],
                CHOOSE c \in ConfigIdx : "Cyc " \o configs[c].name = report.header[2 * k] >>
    ELSE << CHOOSE b \in BenchIdx : PadRight(benchmarks[b].name, 20) = report.rows[n][2],
            CHOOSE c \in ConfigIdx : PadRight(configs[c].name, 15) = report.rows[n][1] >>

\* benchmark first, configuration second
BenchmarkMajorLess(x, y) == x[1] < y[1] \/ (x[1] = y[1] /\ x[2] < y[2])

\* C14: the report lists its cells benchmark by benchmark in the declared
\* order of the Benchmarks and, for one Benchmark, in the declared order of
\* the Configurations, although the cells were stored configuration by
\* configuration.
C14_BenchmarkMajorReport ==
    pc = "done" =>
        \A n \in 1..(ListedCount - 1) : BenchmarkMajorLess(ListedCell(n), ListedCell(n + 1))

(* ----------------------------- rendering ------------------------------ *)
\* the table a rendering of a store gives for the selected matrix
Rendering(res, w) ==
    IF script = "soc" THEN SocTable(res, configs, benchmarks) ELSE TopTable(res, w)

\* C15: the step that prints the table leaves the result store as it was,
\* starts no external command and changes nothing in the build directory,
\* and rendering the store as it is after that step gives the very table
\* that was printed: a second rendering is identical to the first.
C15_RenderIdempotentReadOnly ==
    [][ (pc = "report" /\ report'.printed)
        => /\ results' = results
           /\ writes' = writes
           /\ log' = log
           /\ inflight' = inflight
           /\ artifact' = artifact
           /\ report' = Rendering(results, writes)
           /\ report' = Rendering(results', writes') ]_vars

\* a table of several cells was printed from a store that holds results
C15_Witness ==
    /\ pc = "done"
    /\ report.printed
    /\ Len(report.rows) >= 2
    /\ Cardinality(DOMAIN results) >= 2
    /\ report = Rendering(results, writes)

(* -------------------------- the build directory ----------------------- *)
\* the build directory holds what was generated for another Configuration
StaleFor(config) == artifact # "none" /\ artifact # config

\* C16: while the build of a Configuration is running, the build directory
\* holds nothing that was generated for another Configuration (it was
\* removed before the build was invoked), and no run under a Configuration
\* executes against what was generated for another one, whichever clean or
\* build step failed.
C16_NoStaleArtifact ==
    inflight.step \in {"build", "run"} => ~StaleFor(inflight.config)

(* ------------------------ overrides of a command ---------------------- *)
\* the words of a command line (what the shell splits it into)
WordSet(s) ==
    {SubSeq(s, p[1], p[2]) : p \in
        {q \in (1..Len(s)) \X (1..Len(s)) :
            /\ q[1] <= q[2]
            /\ q[1] = 1 \/ At(s, q[1] - 1) = " "
            /\ q[2] = Len(s) \/ At(s, q[2] + 1) = " "
            /\ \A k \in q[1]..q[2] : At(s, k) # " "}}

\* the variable overrides (NAME=value) a command line passes to make
Overrides(cmd) == {w \in WordSet(cmd) : Contains(w, "=")}

\* every command line the harnesses can build, and its overrides
NoBench == [name |-> "", target |-> "", params |-> ""]
AllCommandLines ==
    {CommandLine(scr, step, DeclaredConfigs(scr)[c], b) :
        scr \in {"soc", "top"}, step \in {"clean", "build", "run"},
        c \in 1..MaxConfigs,
        b \in {NoBench} \cup {DeclaredBenchmarks(s)[k] : s \in {"soc", "top"},
                                                            k \in 1..MaxBenchmarks}}
OverridesOf == [cmd \in AllCommandLines |-> Overrides(cmd)]

\* the parameter overrides of a declared benchmark, by its name
DeclaredBenchmarkSet ==
    {DeclaredBenchmarks(scr)[k] : scr \in {"soc", "top"}, k \in 1..MaxBenchmarks}
ParamWordsOf ==
    [name \in {b.name : b \in DeclaredBenchmarkSet} |->
        UNION {WordSet(b.params) : b \in {d \in DeclaredBenchmarkSet : d.name = name}}]
ParamsOf(name) == ParamWordsOf[name]

\* C17: every run that is started passes to make the build-variable
\* overrides of the Configuration whose build was started last, no other
\* override but the parameters of its Benchmark, and is a run of that
\* Configuration: the Configuration does not change between a build and the
\* runs that follow it.
C17_RunPassesBuildOverrides ==
    LET buildStarts == {i \in Events : IsStart(i, "build")}
        runStarts == {j \in Events : IsStart(j, "run")}
    IN  \A j \in runStarts :
            LET before == {i \in buildStarts : i < j}
            IN  /\ before # {}
                /\ LET last == CHOOSE i \in before : \A k \in before : k <= i
                   IN  /\ log[last].config = log[j].config
                       /\ OverridesOf[log[last].cmd] # {}
                       /\ OverridesOf[log[j].cmd] \ ParamsOf(log[j].bench)
                             = OverridesOf[log[last].cmd]

\* benchmarks were run under the second Configuration, after its build
C17_Witness ==
    /\ pc = "done"
    /\ \E j \in Events : /\ IsStart(j, "run")
                         /\ Len(configs) >= 2
                         /\ log[j].config = configs[2].name
                         /\ log[j].bench = benchmarks[Len(benchmarks)].name

(* --------------------------- the result store ------------------------- *)
\* C18: no step of the traversal assigns a key of the result store that
\* already holds a result: every entry stays as it was recorded, and a step
\* that writes to the store writes one key that was not in it.
C18_WriteOncePerKey ==
    [][ /\ \A k \in DOMAIN results : k \in DOMAIN results' /\ results'[k] = results[k]
        /\ writes' # writes
           => /\ Len(writes') = Len(writes) + 1
              /\ SubSeq(writes', 1, Len(writes)) = writes
              /\ writes'[Len(writes')] \notin DOMAIN results
              /\ DOMAIN results' = DOMAIN results \cup {writes'[Len(writes')]} ]_vars

\* every cell of a matrix of two Configurations was written
C18_Witness ==
    /\ pc = "done"
    /\ Len(configs) >= 2
    /\ Len(benchmarks) >= 2
    /\ Len(writes) = Len(configs) * Len(benchmarks)
    /\ Cardinality(DOMAIN results) = Len(writes)

(* --------------------- errors of the command wrapper ------------------ *)
\* C19: when subprocess.run itself raises an error (the command could not
\* be started), run_command catches it: main() is not left with a
\* traceback at that step, and a run that ended so makes its cell a failed
\* run.
C19_WrapperCatchesErrors ==
    /\ pc = "aborted" => log[Len(log)].kind # "exception"
    /\ \A i \in RunEnds : log[i].kind = "exception" => log[i].said \in RunFailureSaid

(* ------------------------------ interrupt ----------------------------- *)
\* the keys of the cells an interrupted step belongs to: the cell of a run,
\* every cell of the Configuration of a clean or build
CellsOf(e) ==
    IF e.step = "run" THEN {Key(script, e.config, e.bench)}
    ELSE {Key(script, e.config, benchmarks[b].name) : b \in BenchIdx}

\* C20: once a command has ended by an interrupt the traversal is over at
\* that step (no command is started after it, nothing more is recorded, no
\* table is printed), the store has no entry for the interrupted cell, and
\* the step that takes the interrupt leaves the entries of the earlier
\* cells as they were.
C20_InterruptStopsAndDiscards ==
    /\ [](\A i \in Events :
            (log[i].ev = "end" /\ log[i].kind = "interrupt")
            => /\ i = Len(log)
               /\ pc = "aborted"
               /\ inflight = NoCmd
               /\ ~report.printed
               /\ CellsOf(log[i]) \cap DOMAIN results = {})
    /\ [][ (Len(log') > Len(log) /\ log'[Len(log')].kind = "interrupt")
           => (results' = results /\ writes' = writes) ]_vars

\* a run of 4-soc/scripts was interrupted after results of earlier cells
\* had been recorded
C20_Witness ==
    /\ script = "soc"
    /\ pc = "aborted"
    /\ Len(log) > 0
    /\ log[Len(log)].kind = "interrupt"
    /\ log[Len(log)].step = "run"
    /\ Cardinality(DOMAIN results) >= 2

=============================================================================
